---- MODULE Spec2Model ----
(***************************************************************************)
(* Model of src/python/main_metaanalysis.py: the Spectral Relevance        *)
(* Analysis driver.  One run of main() is a state machine: the data        *)
(* loader, then the loop over the evaluation groups (group selection,      *)
(* pipeline call, figure, optional save), then the final show step.        *)
(* Python indices are 0-based; sequences here are 1-based, so the sample   *)
(* with original index idx is entry idx + 1 of a per-sample table.         *)
(***************************************************************************)
EXTENDS Integers, Sequences, FiniteSets, TLC

(* ---------------------------------------------------------------------- *)
(* Bounds of the model and constants of the program                       *)
(* ---------------------------------------------------------------------- *)

\* largest number of samples in a dataset
MaxSamples == 2

\* FOLDS = [str(f) for f in range(10)] + ['all']
NumFolds == 10

\* parser default of --min_clusters
DefaultMinClusters == 3

\* parser default of --neighbors_affinity
DefaultNeighbors == 3

\* parser default of --number_eigen
DefaultNumberEigen == 8

(* ---------------------------------------------------------------------- *)
(* Generic helpers                                                         *)
(* ---------------------------------------------------------------------- *)

Digit(d) ==
    CASE d = 0 -> "0" [] d = 1 -> "1" [] d = 2 -> "2" [] d = 3 -> "3"
      [] d = 4 -> "4" [] d = 5 -> "5" [] d = 6 -> "6" [] d = 7 -> "7"
      [] d = 8 -> "8" [] d = 9 -> "9"

RECURSIVE Str(_)
\* Python's str() of an integer
Str(n) ==
    IF n < 0 THEN "-" \o Str(0 - n)
    ELSE IF n < 10 THEN Digit(n)
    ELSE Str(n \div 10) \o Digit(n % 10)

\* Python's int() of a fold name that passed the FOLDS check ("0" .. "9")
IntOfFold(s) == CHOOSE f \in 0..(NumFolds - 1) : Str(f) = s

RECURSIVE Concat(_)
\* np.concatenate(list_of_arrays, axis=0)
Concat(ss) == IF ss = <<>> THEN <<>> ELSE Head(ss) \o Concat(Tail(ss))

RECURSIVE SumSeq(_)
SumSeq(s) == IF s = <<>> THEN 0 ELSE Head(s) + SumSeq(Tail(s))

SeqToSet(s) == {s[j] : j \in 1..Len(s)}

InSeq(x, s) == \E j \in 1..Len(s) : s[j] = x

RECURSIVE SortedSeq(_)
\* the elements of a finite set of integers in ascending order
SortedSeq(S) ==
    IF S = {} THEN <<>>
    ELSE LET m == CHOOSE x \in S : \A z \in S : x <= z
         IN <<m>> \o SortedSeq(S \ {m})

\* mutant of Unique: the loop runs over y itself, "for cls in y"
UniqueNoDedup(y) == y

\* np.unique(y): the distinct values, sorted ascending
Unique(y) == SortedSeq(SeqToSet(y))

\* np.argmax(row): 0-based position of the first maximal entry
ArgMax(row) ==
    (CHOOSE j \in 1..Len(row) :
        /\ \A l \in 1..Len(row) : row[l] <= row[j]
        /\ \A l \in 1..(j - 1) : row[l] < row[j]) - 1

RECURSIVE MaskPositions(_, _, _)
\* positions j (ascending) at which y[j] = cls, i.e. the boolean mask y == cls
MaskPositions(y, cls, j) ==
    IF j > Len(y) THEN <<>>
    ELSE (IF y[j] = cls THEN <<j>> ELSE <<>>) \o MaskPositions(y, cls, j + 1)

\* a[y == cls]: boolean-mask indexing of a per-sample array
Masked(a, y, cls) ==
    LET pos == MaskPositions(y, cls, 1) IN [j \in 1..Len(pos) |-> a[pos[j]]]

\* a[idx]: integer-array indexing with 0-based indices
Take(a, idx) == [j \in 1..Len(idx) |-> a[idx[j] + 1]]

(* ---------------------------------------------------------------------- *)
(* Closed vocabularies                                                     *)
(* ---------------------------------------------------------------------- *)

ANALYSIIS_DATA == <<"relevance", "inputs">>
ANALYSIS_GROUPING == <<"ground_truth", "as_predicted", "all">>
ATTRIBUTION_TYPES == <<"dom", "act">>
MODELS == <<"Cnn1DC8", "Mlp3Layer768Unit", "MlpLinear", "SvmLinearL2C1em1">>
FOLDS == [f \in 1..NumFolds |-> Str(f - 1)] \o <<"all">>

(* ---------------------------------------------------------------------- *)
(* The persisted input project                                             *)
(* ---------------------------------------------------------------------- *)

\* rows of targets.mat 'Y' (one-hot health status)
HealthRows == {<<1, 0>>, <<0, 1>>}

\* rows of outputs.mat 'y_pred' (class scores)
PredRows == {<<2, 1>>, <<1, 2>>}

\* numbers of folds a project root may hold in splits.mat
FoldCounts == {2, NumFolds}

\* targets_injurytypes.mat 'Y': one-hot row over the injury classes
InjuryRow(idx) == [c \in 1..4 |-> IF c = (idx % 4) + 1 THEN 1 ELSE 0]

\* subject_labels.mat 'LS': one-hot row over the subjects
SubjectRow(idx) == [c \in 1..2 |-> IF c = (idx % 2) + 1 THEN 1 ELSE 0]

\* permutation.mat 'P'[0]: the sample permutation (here the reversal)
Permutation(n) == [j \in 1..n |-> n - j]

\* data.mat 'X': the raw input features of a sample
InputRow(idx) == <<idx + 1, idx + 2>>

\* outputs.mat 'R_pred_dom_epsilon' / 'R_pred_act_epsilon' of a sample
RelevanceRow(attribution_type, idx) ==
    IF attribution_type = "dom" THEN <<idx + 1, 1>> ELSE <<1, idx + 2>>

RECURSIVE SplitFrom(_, _, _)
\* splits.mat 'S'[0,f][0]: the original indices of fold f, as stored
SplitFrom(d, f, idx) ==
    IF idx < 0 THEN <<>>
    ELSE (IF idx % d.nfolds = f THEN <<idx>> ELSE <<>>) \o SplitFrom(d, f, idx - 1)

SplitOf(d, f) == SplitFrom(d, f, d.n - 1)

Datasets(sizes, foldcounts) ==
    UNION {[n : {n}, nfolds : foldcounts,
            health : [1..n -> HealthRows], pred : [1..n -> PredRows]] : n \in sizes}

(* ---------------------------------------------------------------------- *)
(* State                                                                   *)
(* ---------------------------------------------------------------------- *)

VARIABLES
    ARGS,               \* the parsed command line
    env,                \* the file system the run starts in: input project, output root
    pc,                 \* position of main()
    loaded,             \* the data files read so far
    evaluation_groups,  \* what load_analysis_data returned
    i,                  \* position of the group loop (1-based)
    clusterings,        \* pipeline result: one label array per configured k
    tsne_embedding,     \* pipeline result: shape of the centred 2D embedding
    preprocessed,       \* what the preprocessing stage handed to the pipeline
    calls,              \* labels of the groups the pipeline was called for
    figures,            \* the figures drawn so far
    dirs,               \* directories created by the run
    files,              \* files written by the run: records [dir, path, kind, suffix, by, writes]
    log,                \* messages printed by the loop
    error,              \* the exception that ended the run, if any
    shown               \* plt.show() was called

vars == <<ARGS, env, pc, loaded, evaluation_groups, i, clusterings, tsne_embedding,
          preprocessed, calls, figures, dirs, files, log, error, shown>>

NoError == [type |-> "None", arg |-> "", value |-> "", allowed |-> <<>>]

AssertionError(arg, value, allowed) ==
    [type |-> "AssertionError", arg |-> arg, value |-> value, allowed |-> allowed]

(* ---------------------------------------------------------------------- *)
(* load_analysis_data                                                      *)
(* ---------------------------------------------------------------------- *)

\* the assert statements, in order; the record holds what the message says:
\* the argument it names, the offending value and the values it lists
ValidationError(root_isdir, a) ==
    IF ~root_isdir
        THEN AssertionError("project root folder", a.input_root, <<>>)
    ELSE IF ~InSeq(a.model, MODELS)
        THEN AssertionError("model", a.model, MODELS)
    ELSE IF ~InSeq(a.fold, FOLDS)
        THEN AssertionError("model", a.fold, FOLDS)
    ELSE IF ~InSeq(a.analysis_data, ANALYSIIS_DATA)
        THEN AssertionError("model", a.analysis_data, ANALYSIIS_DATA)
    ELSE IF ~InSeq(a.attribution_type, ATTRIBUTION_TYPES)
        THEN AssertionError("model", a.attribution_type, ATTRIBUTION_TYPES)
    ELSE IF ~InSeq(a.analysis_groups, ANALYSIS_GROUPING)
        THEN AssertionError("analysis_groups", a.analysis_groups, ANALYSIS_GROUPING)
    ELSE NoError

\* the six matrices read from the project root
RootFiles ==
    {"targets.mat", "targets_injurytypes.mat", "subject_labels.mat",
     "data.mat", "permutation.mat", "splits.mat"}

\* the per-fold file of model outputs
OutputsFile(model, f) ==
    "Injury/GRF_AV/" \o model \o "/part-" \o Str(f) \o "/outputs.mat"

\* fold selector "all" -> every fold identifier, otherwise a singleton
ResolveFolds(fold) ==
    IF fold = "all" THEN [f \in 1..NumFolds |-> f - 1] ELSE <<IntOfFold(fold)>>

\* np.concatenate([splits['S'][0,f][0] for f in fold])
SplitIndices(d, folds) == Concat([j \in 1..Len(folds) |-> SplitOf(d, folds[j])])

\* outputs.mat of fold f: rows aligned with the fold's split
ModelOutputs(d, attribution_type, f) ==
    [y_pred |-> Take(d.pred, SplitOf(d, f)),
     R |-> [l \in 1..Len(SplitOf(d, f)) |-> RelevanceRow(attribution_type, SplitOf(d, f)[l])]]

\* mutant of GroupingLabels: the 'all' branch is missing and falls into the
\* ground-truth branch
GroupingLabelsNoAll(analysis_groups, y_pred, health) ==
    IF analysis_groups = "as_predicted"
        THEN [j \in 1..Len(y_pred) |-> ArgMax(y_pred[j])]
    ELSE [j \in 1..Len(health) |-> ArgMax(health[j])]

\* the grouping label vector y
GroupingLabels(analysis_groups, y_pred, health) ==
    IF analysis_groups = "as_predicted"
        THEN [j \in 1..Len(y_pred) |-> ArgMax(y_pred[j])]
    ELSE IF analysis_groups = "ground_truth"
        THEN [j \in 1..Len(health) |-> ArgMax(health[j])]
    ELSE [j \in 1..Len(y_pred) |-> 0]

\* the partition of the per-sample arrays by the distinct values of y
EvaluationGroups(y, R, injury, health, subject, split_indices, inputs, relevances) ==
    LET classes == Unique(y)
    IN [g \in 1..Len(classes) |->
           [cls |-> classes[g],
            y |-> Masked(y, y, classes[g]),
            R |-> Masked(R, y, classes[g]),
            y_injury_type |-> Masked(injury, y, classes[g]),
            y_health_type |-> Masked(health, y, classes[g]),
            y_subject |-> Masked(subject, y, classes[g]),
            split_indices |-> Masked(split_indices, y, classes[g]),
            inputs |-> Masked(inputs, y, classes[g]),
            relevances |-> Masked(relevances, y, classes[g])]]

\* the whole of load_analysis_data: the groups returned, the files read and
\* the exception raised, if any
load_analysis_data(e, a) ==
    LET d == e.data
        verr == ValidationError(e.input_root_isdir, a)
        folds == ResolveFolds(a.fold)
        split_indices == SplitIndices(d, folds)
        outs == [j \in 1..Len(folds) |-> ModelOutputs(d, a.attribution_type, folds[j])]
        y_pred == Concat([j \in 1..Len(folds) |-> outs[j].y_pred])
        relevances == Concat([j \in 1..Len(folds) |-> outs[j].R])
        injury == [j \in 1..Len(split_indices) |-> InjuryRow(split_indices[j])]
        health == Take(d.health, split_indices)
        LS == [j \in 1..d.n |-> SubjectRow(j - 1)]
        subject == Take(Take(LS, Permutation(d.n)), split_indices)
        inputs == [j \in 1..Len(split_indices) |-> InputRow(split_indices[j])]
        R == IF a.analysis_data = "inputs" THEN inputs ELSE relevances
        y == GroupingLabels(a.analysis_groups, y_pred, health)
    IN  IF verr # NoError
            THEN [groups |-> <<>>, loaded |-> {}, error |-> verr]
        ELSE IF \E j \in 1..Len(folds) : folds[j] >= d.nfolds
            THEN [groups |-> <<>>, loaded |-> RootFiles,
                  error |-> [type |-> "IndexError", arg |-> "splits", value |-> a.fold,
                             allowed |-> <<>>]]
        ELSE [groups |-> EvaluationGroups(y, R, injury, health, subject,
                                          split_indices, inputs, relevances),
              loaded |-> RootFiles \cup {OutputsFile(a.model, folds[j]) : j \in 1..Len(folds)},
              error |-> NoError]

(* ---------------------------------------------------------------------- *)
(* Initial states: the command lines and projects a run may start from     *)
(* ---------------------------------------------------------------------- *)

\* the parser defaults of the arguments the model does not vary
DefaultArgs ==
    [random_seed |-> "0xDEADBEEF", input_root |-> "./data_metaanalysis",
     neighbors_affinity |-> DefaultNeighbors, number_eigen |-> DefaultNumberEigen,
     tsne_perplexity |-> "30.0", cmap_injury |-> "custom", cmap_subject |-> "viridis",
     cmap_clustering |-> "Set2", output |-> "./output_metaanalysis"]

Args(models, folds, datas, attributions, groupings, indices, mins, maxs, saves, shows) ==
    {DefaultArgs @@ r : r \in
        [model : models, fold : folds, analysis_data : datas,
         attribution_type : attributions, analysis_groups : groupings,
         group_index : indices, min_clusters : mins, max_clusters : maxs,
         save_results : saves, show : shows]}

\* command lines that exercise the loader's selectors, valid and invalid
LoaderArgs ==
    Args({"Cnn1DC8", "Foo"}, {"0", "all", "10"}, {"relevance", "inputs", "foo"},
         {"dom", "act", "foo"}, {"ground_truth", "as_predicted", "all", "foo"},
         {"all"}, {DefaultMinClusters}, {DefaultMinClusters + 1}, {FALSE}, {FALSE})

\* valid command lines that exercise the group loop
RunArgs ==
    Args({"Cnn1DC8"}, {"0", "all"}, {"relevance"}, {"act"},
         {"ground_truth", "as_predicted", "all"}, {"all", "0", "1", "00"},
         {DefaultMinClusters}, {1, 2, 4}, BOOLEAN, BOOLEAN)

InitLoader ==
    /\ ARGS \in LoaderArgs
    /\ env \in [input_root_isdir : BOOLEAN, output_isfile : {FALSE},
                data : Datasets(0..MaxSamples, FoldCounts)]

InitRun ==
    /\ ARGS \in RunArgs
    /\ env \in [input_root_isdir : {TRUE}, output_isfile : BOOLEAN,
                data : Datasets(0..MaxSamples, {NumFolds})]

Init ==
    /\ InitLoader \/ InitRun
    /\ pc = "start"
    /\ loaded = {}
    /\ evaluation_groups = <<>>
    /\ i = 1
    /\ clusterings = <<>>
    /\ tsne_embedding = [rows |-> 0, cols |-> 0]
    /\ preprocessed = <<>>
    /\ calls = <<>>
    /\ figures = <<>>
    /\ dirs = {}
    /\ files = {}
    /\ log = <<>>
    /\ error = NoError
    /\ shown = FALSE

\* main(), lines 210-214: seed, then the loader; an exception ends the run
LoadAnalysisData ==
    /\ pc = "start"
    /\ LET r == load_analysis_data(env, ARGS)
       IN /\ evaluation_groups' = r.groups
          /\ loaded' = r.loaded
          /\ error' = r.error
          /\ pc' = IF r.error = NoError THEN "loop" ELSE "error"
    /\ UNCHANGED <<ARGS, env, i, clusterings, tsne_embedding, preprocessed, calls,
                   figures, dirs, files, log, shown>>

(* ---------------------------------------------------------------------- *)
(* The analysis pipeline (corelay / scikit-learn), by its contract          *)
(* ---------------------------------------------------------------------- *)

\* mutant of n_clusters: range(min_clusters, max_clusters), the "+1" forgotten
n_clustersExclusive(a) ==
    [j \in 1..(a.max_clusters - a.min_clusters) |-> a.min_clusters + j - 1]

\* range(ARGS.min_clusters, ARGS.max_clusters + 1)
n_clusters(a) == [j \in 1..(a.max_clusters + 1 - a.min_clusters) |-> a.min_clusters + j - 1]

\* Normalize.function: data / data.sum(keepdims=True).  data.sum() without an
\* axis is the sum of every entry of the matrix; a quotient is kept as the
\* fraction num / den
Normalize(data) ==
    LET total == SumSeq([j \in 1..Len(data) |-> SumSeq(data[j])])
    IN [j \in 1..Len(data) |->
           [c \in 1..Len(data[j]) |-> [num |-> data[j][c], den |-> total]]]

\* Flatten.function: data.reshape(data.shape[0], prod(data.shape[1:])); the
\* matrices here have one feature axis, so every row keeps its entries
Flatten(data) == [j \in 1..Len(data) |-> [c \in 1..Len(data[j]) |-> data[j][c]]]

\* pipeline.preprocessing = Sequential([Normalize(), Flatten()])
Preprocessing(data) == Flatten(Normalize(data))

\* KMeans(n_clusters=k): one label in 0..k-1 per sample; the seed is fixed,
\* so the labelling is a function of the data
KMeans(k, data) == [j \in 1..Len(data) |-> (j - 1) % k]

\* clusterings, tsne_embedding = pipeline(R), then the centring of the
\* embedding, which keeps its shape
Pipeline(a, R) ==
    LET ks == n_clusters(a)
        pre == Preprocessing(R)
    IN [preprocessed |-> pre,
        clusterings |-> [j \in 1..Len(ks) |-> KMeans(ks[j], pre)],
        tsne_embedding |-> [rows |-> Len(R), cols |-> 2]]

(* ---------------------------------------------------------------------- *)
(* Figure and output directory                                             *)
(* ---------------------------------------------------------------------- *)

Distinct(labels) == Cardinality(SeqToSet(labels))

\* mutant of Figure: the subject panel is not drawn
FigureNoSubject(g, cl) ==
    [cls |-> g.cls,
     panels |->
        <<[kind |-> "GT injury labels",
           count |-> Distinct([j \in 1..Len(g.y_injury_type) |-> ArgMax(g.y_injury_type[j])])]>>
        \o [j \in 1..Len(cl) |-> [kind |-> "SpRAy clusters", count |-> Distinct(cl[j])]]]

\* the subplots of one figure, left to right, with their x labels
Figure(g, cl) ==
    [cls |-> g.cls,
     panels |->
        <<[kind |-> "GT injury labels",
           count |-> Distinct([j \in 1..Len(g.y_injury_type) |-> ArgMax(g.y_injury_type[j])])],
          [kind |-> "GT subject labels",
           count |-> Distinct([j \in 1..Len(g.y_subject) |-> ArgMax(g.y_subject[j])])]>>
        \o [j \in 1..Len(cl) |-> [kind |-> "SpRAy clusters", count |-> Distinct(cl[j])]]]

\* natsorted(relevant_keys)
relevant_keys ==
    <<"analysis_data", "analysis_groups", "attribution_type", "cmap_clustering",
      "cmap_injury", "cmap_subject", "fold", "group_index", "max_clusters",
      "min_clusters", "model", "neighbors_affinity", "random_seed", "tsne_perplexity">>

\* '{}'.format(getattr(ARGS, k))
FormatArg(a, k) ==
    IF k \in {"max_clusters", "min_clusters", "neighbors_affinity"} THEN Str(a[k]) ELSE a[k]

RECURSIVE Join(_, _)
\* sep.join(parts)
Join(sep, parts) ==
    IF parts = <<>> THEN ""
    ELSE IF Len(parts) = 1 THEN parts[1]
    ELSE parts[1] \o sep \o Join(sep, Tail(parts))

\* args_to_stuff: the folder name and the text of callparams.args
args_to_stuff(a) ==
    [foldername |-> Join("-", [j \in 1..Len(relevant_keys) |-> FormatArg(a, relevant_keys[j])]),
     args_string |-> Join("  ", [j \in 1..Len(relevant_keys) |->
                        "--" \o relevant_keys[j] \o " " \o FormatArg(a, relevant_keys[j])])]

\* '{}/{}'.format(ARGS.output, output_dir)
OutputDir(a) == a.output \o "/" \o args_to_stuff(a).foldername

\* mutant of Target: the group label is left out of the file name
TargetNoSuffix(a, stem, suffix, ext, kind) ==
    [dir |-> OutputDir(a), path |-> OutputDir(a) \o "/" \o stem \o ext,
     kind |-> kind, suffix |-> ""]

\* '{}/<stem>{}<ext>'.format(output_dir, cls): one file name of a save; kind
\* is the writer (plt.savefig, f.write, np.save), suffix what fills the slot
Target(a, stem, suffix, ext, kind) ==
    [dir |-> OutputDir(a), path |-> OutputDir(a) \o "/" \o stem \o suffix \o ext,
     kind |-> kind, suffix |-> suffix]

\* mutant of SavedPaths: the second plt.savefig is missing
SavedPathsNoPdf(a, cls) ==
    <<Target(a, "cls-", Str(cls), ".svg", "figure"),
      Target(a, "callparams", "", ".args", "text"),
      Target(a, "emb-", Str(cls), ".npy", "array"),
      Target(a, "clust-", Str(cls), ".npy", "array"),
      Target(a, "idx-", Str(cls), ".npy", "array"),
      Target(a, "adata-", Str(cls), ".npy", "array"),
      Target(a, "inputs-", Str(cls), ".npy", "array"),
      Target(a, "relevances-", Str(cls), ".npy", "array")>>

\* the files one save writes, in the order of the code
SavedPaths(a, cls) ==
    <<Target(a, "cls-", Str(cls), ".svg", "figure"),
      Target(a, "cls-", Str(cls), ".pdf", "figure"),
      Target(a, "callparams", "", ".args", "text"),
      Target(a, "emb-", Str(cls), ".npy", "array"),
      Target(a, "clust-", Str(cls), ".npy", "array"),
      Target(a, "idx-", Str(cls), ".npy", "array"),
      Target(a, "adata-", Str(cls), ".npy", "array"),
      Target(a, "inputs-", Str(cls), ".npy", "array"),
      Target(a, "relevances-", Str(cls), ".npy", "array")>>

\* one write: the file is created, or replaced and its write count raised
WriteFile(fs, t, cls) ==
    LET old == {f \in fs : f.path = t.path}
        n == IF old = {} THEN 0 ELSE (CHOOSE f \in old : TRUE).writes
    IN (fs \ old) \cup {[dir |-> t.dir, path |-> t.path, kind |-> t.kind,
                         suffix |-> t.suffix, by |-> cls, writes |-> n + 1]}

RECURSIVE WriteAll(_, _, _)
WriteAll(fs, targets, cls) ==
    IF targets = <<>> THEN fs
    ELSE WriteAll(WriteFile(fs, Head(targets), cls), Tail(targets), cls)

(* ---------------------------------------------------------------------- *)
(* main(): the loop over the evaluation groups                             *)
(* ---------------------------------------------------------------------- *)

InLoop == pc = "loop" /\ i <= Len(evaluation_groups)

e == evaluation_groups[i]

\* mutant of Selected: the "not" of the test is missing
SelectedInverted(a, cls) == ~(a.group_index = "all" \/ a.group_index = Str(cls))

\* ARGS.group_index in ['all', str(cls)]
Selected(a, cls) == a.group_index = "all" \/ a.group_index = Str(cls)

Message(msg, cls) == [msg |-> msg, cls |-> cls]

\* lines 219-221: the group does not match, log and continue
SkipGroup ==
    /\ InLoop
    /\ ~Selected(ARGS, e.cls)
    /\ log' = Append(log, Message("skipping group/class", e.cls))
    /\ i' = i + 1
    /\ UNCHANGED <<ARGS, env, pc, loaded, evaluation_groups, clusterings, tsne_embedding,
                   preprocessed, calls, figures, dirs, files, error, shown>>

\* lines 223-259: the pipeline is built and called, and returns
PipelineReturns ==
    /\ InLoop
    /\ Selected(ARGS, e.cls)
    /\ LET r == Pipeline(ARGS, e.R)
       IN /\ clusterings' = r.clusterings
          /\ tsne_embedding' = r.tsne_embedding
          /\ preprocessed' = r.preprocessed
    /\ calls' = Append(calls, e.cls)
    /\ log' = log \o <<Message("process", e.cls), Message("Pipeline execution time", e.cls)>>
    /\ pc' = "draw"
    /\ UNCHANGED <<ARGS, env, loaded, evaluation_groups, i, figures, dirs, files,
                   error, shown>>

\* mutant of PipelineRaises: the call sits in a try block whose handler goes
\* on with the next group
PipelineRaisesCaught ==
    /\ InLoop
    /\ Selected(ARGS, e.cls)
    /\ calls' = Append(calls, e.cls)
    /\ log' = Append(log, Message("process", e.cls))
    /\ error' = [type |-> "PipelineError", arg |-> "pipeline", value |-> Str(e.cls),
                 allowed |-> <<>>]
    /\ i' = i + 1
    /\ UNCHANGED <<ARGS, env, pc, loaded, evaluation_groups, clusterings, tsne_embedding,
                   preprocessed, figures, dirs, files, shown>>

\* line 253: a numerical routine of the pipeline raises; nothing catches it
PipelineRaises ==
    /\ InLoop
    /\ Selected(ARGS, e.cls)
    /\ calls' = Append(calls, e.cls)
    /\ log' = Append(log, Message("process", e.cls))
    /\ error' = [type |-> "PipelineError", arg |-> "pipeline", value |-> Str(e.cls),
                 allowed |-> <<>>]
    /\ pc' = "error"
    /\ UNCHANGED <<ARGS, env, loaded, evaluation_groups, i, clusterings, tsne_embedding,
                   preprocessed, figures, dirs, files, shown>>

\* lines 262-310: the figure of the group
DrawFigure ==
    /\ pc = "draw"
    /\ figures' = Append(figures, Figure(e, clusterings))
    /\ log' = IF ARGS.cmap_injury = "custom"
                  THEN Append(log, Message("drawing true injury labels", e.cls))
                  ELSE log
    /\ pc' = "save"
    /\ UNCHANGED <<ARGS, env, loaded, evaluation_groups, i, clusterings, tsne_embedding,
                   preprocessed, calls, dirs, files, error, shown>>

\* line 313: save_results is not set; the iteration ends
SaveDisabled ==
    /\ pc = "save"
    /\ ~ARGS.save_results
    /\ i' = i + 1
    /\ pc' = "loop"
    /\ UNCHANGED <<ARGS, env, loaded, evaluation_groups, clusterings, tsne_embedding,
                   preprocessed, calls, figures, dirs, files, log, error, shown>>

\* mutant of SaveRefused: the collision with a plain file is raised
SaveRefusedRaises ==
    /\ pc = "save"
    /\ ARGS.save_results
    /\ env.output_isfile
    /\ error' = [type |-> "FileExistsError", arg |-> "output", value |-> ARGS.output,
                 allowed |-> <<>>]
    /\ pc' = "error"
    /\ UNCHANGED <<ARGS, env, loaded, evaluation_groups, i, clusterings, tsne_embedding,
                   preprocessed, calls, figures, dirs, files, log, shown>>

\* lines 314-315: the output root is a plain file; only a message
SaveRefused ==
    /\ pc = "save"
    /\ ARGS.save_results
    /\ env.output_isfile
    /\ log' = Append(log, Message("Can not save results", e.cls))
    /\ i' = i + 1
    /\ pc' = "loop"
    /\ UNCHANGED <<ARGS, env, loaded, evaluation_groups, clusterings, tsne_embedding,
                   preprocessed, calls, figures, dirs, files, error, shown>>

\* lines 316-333: the directory is made if missing and the artifacts written
SaveArtifacts ==
    /\ pc = "save"
    /\ ARGS.save_results
    /\ ~env.output_isfile
    /\ dirs' = dirs \cup {OutputDir(ARGS)}
    /\ files' = WriteAll(files, SavedPaths(ARGS, e.cls), e.cls)
    /\ log' = Append(log, Message("saving figure, args and clusterings/embedding", e.cls))
    /\ i' = i + 1
    /\ pc' = "loop"
    /\ UNCHANGED <<ARGS, env, loaded, evaluation_groups, clusterings, tsne_embedding,
                   preprocessed, calls, figures, error, shown>>

\* lines 337-339: after the last group, the figures are shown on request
ShowFigures ==
    /\ pc = "loop"
    /\ i > Len(evaluation_groups)
    /\ shown' = ARGS.show
    /\ pc' = "done"
    /\ UNCHANGED <<ARGS, env, loaded, evaluation_groups, i, clusterings, tsne_embedding,
                   preprocessed, calls, figures, dirs, files, log, error>>

Next ==
    \/ LoadAnalysisData
    \/ SkipGroup
    \/ PipelineReturns
    \/ PipelineRaises
    \/ DrawFigure
    \/ SaveDisabled
    \/ SaveRefused
    \/ SaveArtifacts
    \/ ShowFigures

Spec == Init /\ [][Next]_vars

(* ---------------------------------------------------------------------- *)
(* Properties                                                              *)
(* ---------------------------------------------------------------------- *)

\* the loader returned: no validation error and no missing fold
LoadedOk == pc # "start" /\ error.type \notin {"AssertionError", "IndexError"}

\* original indices of the samples in the requested fold(s) of the project
SelectedSamples ==
    {idx \in 0..(env.data.n - 1) :
        ARGS.fold = "all" \/ Str(idx % env.data.nfolds) = ARGS.fold}

\* the grouping label of a sample under the requested policy
LabelOf(idx) ==
    CASE ARGS.analysis_groups = "as_predicted" -> ArgMax(env.data.pred[idx + 1])
      [] ARGS.analysis_groups = "ground_truth" -> ArgMax(env.data.health[idx + 1])
      [] OTHER -> 0

GroupIndices(g) == SeqToSet(evaluation_groups[g].split_indices)

\* C1: after a successful load there is exactly one group per distinct
\* grouping label of the selected samples, the groups come in ascending label
\* order, their original indices are pairwise disjoint, every sample of a
\* group carries the group's label, and the group sizes add up to the number
\* of selected samples.
C1_GroupsPartitionByLabel ==
    LoadedOk =>
        LET G == evaluation_groups
            labels == {LabelOf(idx) : idx \in SelectedSamples}
        IN /\ Len(G) = Cardinality(labels)
           /\ {G[g].cls : g \in 1..Len(G)} = labels
           /\ \A g, h \in 1..Len(G) : g < h => G[g].cls < G[h].cls
           /\ \A g, h \in 1..Len(G) : g # h => GroupIndices(g) \cap GroupIndices(h) = {}
           /\ \A g \in 1..Len(G) : \A j \in 1..Len(G[g].split_indices) :
                 /\ LabelOf(G[g].split_indices[j]) = G[g].cls
                 /\ G[g].y[j] = G[g].cls
           /\ \A g \in 1..Len(G) :
                 /\ Cardinality(GroupIndices(g)) = Len(G[g].split_indices)
                 /\ Len(G[g].y) = Len(G[g].split_indices)
                 /\ Len(G[g].R) = Len(G[g].split_indices)
           /\ SumSeq([g \in 1..Len(G) |-> Len(G[g].split_indices)])
                 = Cardinality(SelectedSamples)

\* two groups came back from a grouping by predicted class
C1_Witness ==
    /\ LoadedOk
    /\ ARGS.analysis_groups = "as_predicted"
    /\ ARGS.fold = "all"
    /\ Len(evaluation_groups) = 2

\* C2 as stated: with policy 'all' the loader returns, for every dataset, one
\* group with label 0 that holds every selected sample.
C2_AllAlwaysOneGroup ==
    (LoadedOk /\ ARGS.analysis_groups = "all") =>
        /\ Len(evaluation_groups) = 1
        /\ evaluation_groups[1].cls = 0
        /\ GroupIndices(1) = SelectedSamples

\* C2 amended: with policy 'all' the loader returns one group with label 0
\* holding every selected sample when at least one sample is selected, and no
\* group at all when the selected folds hold no sample.
C2_AllOneGroupUnlessEmpty ==
    (LoadedOk /\ ARGS.analysis_groups = "all") =>
        IF SelectedSamples = {}
            THEN evaluation_groups = <<>>
            ELSE /\ Len(evaluation_groups) = 1
                 /\ evaluation_groups[1].cls = 0
                 /\ GroupIndices(1) = SelectedSamples
                 /\ Len(evaluation_groups[1].split_indices) = Cardinality(SelectedSamples)

\* policy 'all' over samples of both health classes
C2_Witness ==
    /\ LoadedOk
    /\ ARGS.analysis_groups = "all"
    /\ Cardinality(SelectedSamples) >= 2
    /\ \E a, b \in SelectedSamples : env.data.health[a + 1] # env.data.health[b + 1]

\* the group index filter is "all" or the decimal form of a group index
GroupIndexValid(gi) == gi = "all" \/ \E n \in 0..9 : Str(n) = gi

\* the arguments of the command line that are outside their vocabulary
InvalidArguments ==
    {k \in {"input_root", "model", "fold", "analysis_data", "attribution_type",
            "analysis_groups", "group_index"} :
        CASE k = "input_root" -> ~env.input_root_isdir
          [] k = "model" -> ~InSeq(ARGS.model, MODELS)
          [] k = "fold" -> ~InSeq(ARGS.fold, FOLDS)
          [] k = "analysis_data" -> ~InSeq(ARGS.analysis_data, ANALYSIIS_DATA)
          [] k = "attribution_type" -> ~InSeq(ARGS.attribution_type, ATTRIBUTION_TYPES)
          [] k = "analysis_groups" -> ~InSeq(ARGS.analysis_groups, ANALYSIS_GROUPING)
          [] k = "group_index" -> ~GroupIndexValid(ARGS.group_index)}

\* the closed vocabulary of a selector
Vocabulary(k) ==
    CASE k = "model" -> MODELS
      [] k = "fold" -> FOLDS
      [] k = "analysis_data" -> ANALYSIIS_DATA
      [] k = "attribution_type" -> ATTRIBUTION_TYPES
      [] k = "analysis_groups" -> ANALYSIS_GROUPING
      [] OTHER -> <<>>

\* the argument a validation message names
NamedArgument(err) == IF err.arg = "project root folder" THEN "input_root" ELSE err.arg

\* C3: an invalid input root or selector ends the run with a validation error
\* that names an offending argument and lists the allowed values, before any
\* data file is read, any group processed or anything written.
C3_InvalidArgumentsRejected ==
    (pc # "start" /\ InvalidArguments # {}) =>
        /\ pc = "error"
        /\ error.type = "AssertionError"
        /\ NamedArgument(error) \in InvalidArguments
        /\ ARGS[NamedArgument(error)] = error.value
        /\ error.allowed = Vocabulary(NamedArgument(error))
        /\ loaded = {}
        /\ calls = <<>>
        /\ figures = <<>>
        /\ files = {}

\* the end-to-end scenario of C4, but for the number of folds in the project
Scenario ==
    /\ env.input_root_isdir
    /\ ARGS.model = "Cnn1DC8"
    /\ ARGS.fold = "all"
    /\ ARGS.analysis_data = "relevance"
    /\ ARGS.attribution_type = "act"
    /\ ARGS.analysis_groups = "ground_truth"
    /\ ARGS.group_index = "all"
    /\ ARGS.min_clusters = 3
    /\ ARGS.max_clusters = 4

\* the distinct ground-truth health classes among the samples of the project
HealthClasses == {ArgMax(env.data.health[j]) : j \in 1..env.data.n}

\* a figure of the scenario: injury labels, subject labels, k=3, k=4
FourPanels(f) ==
    /\ Len(f.panels) = 4
    /\ f.panels[1].kind = "GT injury labels"
    /\ f.panels[2].kind = "GT subject labels"
    /\ f.panels[3].kind = "SpRAy clusters"
    /\ f.panels[4].kind = "SpRAy clusters"

ScenarioFigures ==
    /\ Len(figures) = Cardinality(HealthClasses)
    /\ {figures[j].cls : j \in 1..Len(figures)} = HealthClasses
    /\ \A j \in 1..Len(figures) : FourPanels(figures[j])

\* C4 as stated: in the scenario with a project root that holds 2 folds the
\* run does not abort, and once it has completed there is one figure per
\* distinct ground-truth health class, each with 4 panels.
C4_TwoFoldScenarioCompletes ==
    (Scenario /\ env.data.nfolds = 2) =>
        /\ pc # "error"
        /\ pc = "done" => ScenarioFigures

\* C4 amended: in the scenario with a project root that holds all ten folds
\* the run can only be ended early by a raising pipeline call, and once
\* completed has drawn one figure per distinct ground-truth health class,
\* each with 4 panels; with a project root that holds only 2 folds the
\* loader raises an IndexError on the split table and no figure is drawn.
C4_TenFoldScenarioCompletes ==
    /\ (Scenario /\ env.data.nfolds = NumFolds) =>
          /\ error.type \in {"None", "PipelineError"}
          /\ pc = "done" => ScenarioFigures
    /\ (Scenario /\ env.data.nfolds < NumFolds /\ pc # "start") =>
          /\ pc = "error"
          /\ error.type = "IndexError"
          /\ figures = <<>>

\* the scenario ran to its end over samples of both health classes
C4_Witness ==
    /\ Scenario
    /\ env.data.nfolds = NumFolds
    /\ pc = "done"
    /\ Len(figures) = 2

\* the group index specifier admits the group label
Matches(cls) == ARGS.group_index = "all" \/ ARGS.group_index = Str(cls)

\* labels of the selected groups whose loop iteration is over
ProcessedGroups ==
    {evaluation_groups[g].cls : g \in {h \in 1..Len(evaluation_groups) :
                                        h < i /\ Matches(evaluation_groups[h].cls)}}

FilesFor(cls, kind) == {f \in files : f.kind = kind /\ f.suffix = Str(cls)}

\* the output subdirectory: the values of the fixed subset of arguments,
\* ordered by argument name, joined by '-'
ExpectedOutputDir ==
    ARGS.output \o "/" \o ARGS.analysis_data \o "-" \o ARGS.analysis_groups \o "-"
      \o ARGS.attribution_type \o "-" \o ARGS.cmap_clustering \o "-" \o ARGS.cmap_injury
      \o "-" \o ARGS.cmap_subject \o "-" \o ARGS.fold \o "-" \o ARGS.group_index \o "-"
      \o Str(ARGS.max_clusters) \o "-" \o Str(ARGS.min_clusters) \o "-" \o ARGS.model
      \o "-" \o Str(ARGS.neighbors_affinity) \o "-" \o ARGS.random_seed \o "-"
      \o ARGS.tsne_perplexity

SavingRun == ARGS.save_results /\ ~env.output_isfile

\* C5 as stated: a saving run writes into one output subdirectory, and for
\* each processed group exactly 2 figure files and exactly 5 array files
\* suffixed by the group's label, plus the text record of the arguments.
C5_FiveArraysPerGroup ==
    SavingRun =>
        /\ dirs \subseteq {ExpectedOutputDir}
        /\ \A f \in files : f.dir = ExpectedOutputDir
        /\ \A c \in ProcessedGroups :
              /\ Cardinality(FilesFor(c, "figure")) = 2
              /\ Cardinality(FilesFor(c, "array")) = 5
              /\ \E f \in files : f.kind = "text"

\* C5 amended: a saving run writes into one output subdirectory (none before
\* the first group is saved), and for each processed group exactly 2 figure
\* files and exactly 6 array files suffixed by the group's label, plus the
\* one text record of the arguments; it writes nothing else.
C5_SixArraysPerGroup ==
    SavingRun =>
        /\ dirs = (IF ProcessedGroups = {} THEN {} ELSE {ExpectedOutputDir})
        /\ \A f \in files : f.dir = ExpectedOutputDir
        /\ \A c \in ProcessedGroups :
              /\ Cardinality(FilesFor(c, "figure")) = 2
              /\ Cardinality(FilesFor(c, "array")) = 6
        /\ Cardinality({f \in files : f.kind = "text"})
              = (IF ProcessedGroups = {} THEN 0 ELSE 1)
        /\ Cardinality(files) = 8 * Cardinality(ProcessedGroups)
              + (IF ProcessedGroups = {} THEN 0 ELSE 1)
        /\ Cardinality({f.path : f \in files}) = Cardinality(files)

\* two groups have been saved
C5_Witness ==
    /\ SavingRun
    /\ pc = "done"
    /\ Cardinality(ProcessedGroups) = 2

\* the group a pipeline result belongs to
CurrentGroup == evaluation_groups[i]

ConfiguredCounts ==
    IF ARGS.max_clusters < ARGS.min_clusters THEN 0
    ELSE ARGS.max_clusters - ARGS.min_clusters + 1

GroupLabels == [g \in 1..Len(evaluation_groups) |-> evaluation_groups[g].cls]

NotMatches(cls) == ~Matches(cls)

\* how many groups the loop has entered, and how many it has left
GroupsEntered == IF pc \in {"draw", "save"} \/ error.type = "PipelineError" THEN i ELSE i - 1
GroupsLeft == i - 1

LabelsOf(records) == [j \in 1..Len(records) |-> records[j].cls]

IsSkipMessage(m) == m.msg = "skipping group/class"

\* C7: the loop visits the groups one after another in the loader's order;
\* the pipeline is called and a figure drawn for exactly the visited groups
\* whose label the group index specifier admits ('all' or the label's string
\* form); a group that does not match leaves nothing but one log message: no
\* pipeline call, no figure, no file, and the groups after it are treated the
\* same as without it.
C7_SequentialSelection ==
    LoadedOk =>
        /\ i \in 1..(Len(evaluation_groups) + 1)
        /\ pc = "done" => i = Len(evaluation_groups) + 1
        /\ calls = SelectSeq(SubSeq(GroupLabels, 1, GroupsEntered), Matches)
        /\ LabelsOf(figures)
              = SelectSeq(SubSeq(GroupLabels, 1, IF pc = "save" THEN i ELSE i - 1), Matches)
        /\ LabelsOf(SelectSeq(log, IsSkipMessage))
              = SelectSeq(SubSeq(GroupLabels, 1, GroupsLeft), NotMatches)
        /\ \A j \in 1..Len(log) : NotMatches(log[j].cls) => IsSkipMessage(log[j])
        /\ \A f \in files : Matches(f.by) /\ f.by \in ProcessedGroups

\* group 0 was skipped and group 1, after it, analysed
C7_Witness ==
    /\ pc = "done"
    /\ ARGS.group_index = "1"
    /\ GroupLabels = <<0, 1>>
    /\ calls = <<1>>
    /\ LabelsOf(figures) = <<1>>
    /\ LabelsOf(SelectSeq(log, IsSkipMessage)) = <<0>>

IsRefusalMessage(m) == m.msg = "Can not save results"

\* C8: when save_results is set and the output root is a plain file, the
\* persister only prints its message, once per processed group: no error
\* comes from it, no directory is made and no file written; the loop goes on,
\* so the remaining selected groups get their pipeline call and figure, and
\* the final step is reached.
C8_FileCollisionOnlyReported ==
    (LoadedOk /\ ARGS.save_results /\ env.output_isfile) =>
        /\ files = {}
        /\ dirs = {}
        /\ error.type \in {"None", "PipelineError"}
        /\ LabelsOf(SelectSeq(log, IsRefusalMessage))
              = SelectSeq(SubSeq(GroupLabels, 1, GroupsLeft), Matches)
        /\ pc = "save" => LabelsOf(figures)
              = SelectSeq(SubSeq(GroupLabels, 1, i), Matches)
        /\ pc = "done" => /\ LabelsOf(figures) = SelectSeq(GroupLabels, Matches)
                          /\ shown = ARGS.show

\* two groups were refused their save and the run reached its end
C8_Witness ==
    /\ ARGS.save_results
    /\ env.output_isfile
    /\ pc = "done"
    /\ Len(figures) = 2
    /\ Len(SelectSeq(log, IsRefusalMessage)) = 2

Occurrences(s, x) == Cardinality({j \in 1..Len(s) : s[j] = x})

\* the state after a pipeline call has raised
PipelineFailed == error.type = "PipelineError"

C9_AfterFailure ==
    PipelineFailed =>
        /\ pc = "error"
        /\ ~shown
        /\ i <= Len(evaluation_groups)
        /\ calls[Len(calls)] = CurrentGroup.cls
        /\ Occurrences(calls, CurrentGroup.cls) = 1
        /\ \A j \in 1..Len(figures) : figures[j].cls \in ProcessedGroups
        /\ \A f \in files : f.by \in ProcessedGroups /\ f.writes >= 1
        /\ CurrentGroup.cls \notin ProcessedGroups
        /\ \A g \in (i + 1)..Len(evaluation_groups) :
              /\ ~InSeq(evaluation_groups[g].cls, calls)
              /\ evaluation_groups[g].cls \notin ProcessedGroups

C9_FailureStep ==
    PipelineFailed' =>
        /\ files' = files
        /\ dirs' = dirs
        /\ figures' = figures
        /\ shown' = shown
        /\ PipelineFailed => UNCHANGED vars

\* C9: an error raised by the pipeline call for a group ends the run at that
\* group: the call is not repeated, no figure or file of the failing group
\* and no call, figure or file of a later group exists, the figures are not
\* shown, and the step that raises, like every step after it, leaves the
\* files, directories and figures of the earlier groups as they were.
C9_PipelineErrorEndsRun == [](C9_AfterFailure) /\ [][C9_FailureStep]_vars

\* the second group failed after the first one had been saved
C9_Witness ==
    /\ PipelineFailed
    /\ i = 2
    /\ Cardinality(files) = 9
    /\ Len(figures) = 1

\* C10: the preprocessing divides every sample (row) by the sum of its own
\* entries, so a sample's normalized values do not depend on the other
\* samples of the group, and hands over one feature vector per sample.
C10_RowWiseNormalization ==
    pc \in {"draw", "save"} =>
        /\ Len(preprocessed) = Len(CurrentGroup.R)
        /\ \A j \in 1..Len(preprocessed) :
              /\ Len(preprocessed[j]) = Len(CurrentGroup.R[j])
              /\ \A c \in 1..Len(preprocessed[j]) :
                    /\ preprocessed[j][c].den # 0
                    /\ preprocessed[j][c].num * SumSeq(CurrentGroup.R[j])
                          = CurrentGroup.R[j][c] * preprocessed[j][c].den

\* C11 as stated: every file of the output subdirectory is written exactly
\* once during the run; saving a later group rewrites no file of an earlier
\* group.
C11_EveryFileWrittenOnce == \A f \in files : f.writes = 1

C11_FilesState ==
    \A f \in files :
        IF f.kind = "text"
            THEN /\ f.suffix = ""
                 /\ f.writes = Cardinality(ProcessedGroups)
                 /\ f.by \in ProcessedGroups
            ELSE /\ f.suffix = Str(f.by)
                 /\ f.writes = 1
                 /\ f.by \in ProcessedGroups

C11_FilesStep == \A f \in files : f.kind # "text" => f \in files'

\* C11 amended: every file that carries a group label (the 2 figure files and
\* the 6 array files of a group) is written exactly once during the run, by
\* the save of its own group, and no later step rewrites or removes it; the
\* one file without a label, callparams.args, is written again by the save of
\* every processed group.
C11_LabelledFilesWrittenOnce == [](C11_FilesState) /\ [][C11_FilesStep]_vars

\* the second save of a run has rewritten callparams.args next to the files
\* of the first group
C11_Witness ==
    /\ SavingRun
    /\ Cardinality(ProcessedGroups) = 2
    /\ \E f \in files : f.kind = "text" /\ f.writes = 2 /\ f.by = 1
    /\ \E f \in files : f.kind = "array" /\ f.by = 0 /\ f.writes = 1

====
